---- MODULE Spec2Model ----
(***************************************************************************)
(* Model of divvysim's split_decimal (src/split.rs): splitting the         *)
(* mantissa of a Decimal among a number of recipients.                     *)
(*                                                                         *)
(* A Decimal is a record [mantissa, scale].  Every variable is a function  *)
(* of the call: Spec runs one call of split_decimal, SpecTwo runs two      *)
(* calls on the same mantissa and recipient count side by side.            *)
(*                                                                         *)
(* Integer width: the mantissa of a Decimal fits 96 bits and the code      *)
(* computes in i128; |base_share + extra| <= |raw|, so no operation of     *)
(* split_decimal can overflow and the integers are modelled unbounded.     *)
(***************************************************************************)
EXTENDS Integers, Sequences, FiniteSets

VARIABLES pc, amount, recipients, scale, base_share, remainder, pending,
          splits, total_split, diff, iters

vars == <<pc, amount, recipients, scale, base_share, remainder, pending,
          splits, total_split, diff, iters>>

(* ---- bounds of the inputs ---- *)
MaxRaw == 7
MaxNeg == 5
MaxRecipients == 4
MaxInScale == 1
MaxSmallScale == 0

(* the largest scale a Decimal can carry *)
MAX_PRECISION == 28

Mantissas == (0 - MaxNeg)..MaxRaw
RecipientCounts == 0..MaxRecipients
InScales == 0..MaxInScale
OutScales == (0..MaxSmallScale) \cup {MAX_PRECISION, MAX_PRECISION + 1}

(* ---- Decimal ---- *)
from_i128_with_scale(num, sc) == [mantissa |-> num, scale |-> sc]

ScaleOk(sc) == sc <= MAX_PRECISION

mantissa(d) == d.mantissa

(* a slot of the pre-sized output that no worker has written yet *)
NoShare == [mantissa |-> 0, scale |-> 0 - 1]

(* ---- i128 division and remainder: truncation toward zero ---- *)
TruncDiv(a, b) == IF a >= 0 THEN a \div b ELSE 0 - ((0 - a) \div b)

TruncRem(a, b) == a - b * TruncDiv(a, b)

(* ---- the pieces of split_decimal ---- *)
RawRescaled(a) == a.mantissa * (IF a.scale = 0 THEN 1 ELSE 10)
RawOf(a) == mantissa(a)

IndicesInclusive(n) == 0..n
Indices(n) == 0..(n - 1)

ExtraAllToFirst(i, rem) == IF i = 0 /\ rem > 0 THEN rem ELSE 0
ExtraInverted(i, rem) == IF i >= rem THEN 1 ELSE 0
ExtraOffByOne(i, rem) == IF i <= rem THEN 1 ELSE 0
ExtraNone(i, rem) == 0
ExtraOf(i, rem) == IF i < rem THEN 1 ELSE 0

ShareOf(i, base, rem, sc) == from_i128_with_scale(base + ExtraOf(i, rem), sc)

FirstFree(s) == CHOOSE k \in 1..Len(s) : s[k] = NoShare /\ \A j \in 1..(k - 1) : s[j] /= NoShare
PlaceInCompletionOrder(s, i, d) == [s EXCEPT ![FirstFree(s)] = d]
Place(s, i, d) == [s EXCEPT ![i + 1] = d]

Presized(idx) == [k \in 1..Cardinality(idx) |-> NoShare]

RECURSIVE SumMantissas(_)
SumMantissas(s) == IF s = <<>> THEN 0 ELSE mantissa(Head(s)) + SumMantissas(Tail(s))

(* share i of a returned sequence (Rust indices start at 0) *)
At(s, i) == s[i + 1]

(* ---- initial states ---- *)
InitCalls(calls) ==
    /\ pc = [c \in calls |-> "start"]
    /\ recipients \in [calls -> RecipientCounts]
    /\ amount \in [calls -> [mantissa : Mantissas, scale : InScales]]
    /\ scale \in [calls -> OutScales]
    /\ base_share = [c \in calls |-> 0]
    /\ remainder = [c \in calls |-> 0]
    /\ pending = [c \in calls |-> {}]
    /\ splits = [c \in calls |-> <<>>]
    /\ total_split = [c \in calls |-> 0]
    /\ diff = [c \in calls |-> 0]
    /\ iters = [c \in calls |-> 0]

Init == InitCalls({1})

InitTwo ==
    /\ InitCalls({1, 2})
    /\ amount[1].mantissa = amount[2].mantissa
    /\ recipients[1] = recipients[2]

(* ---- actions ---- *)
(* lines 20-25: read the mantissa, divide, open the parallel range *)
Divide(c) ==
    /\ pc[c] = "start"
    /\ IF recipients[c] = 0
       THEN /\ pc' = [pc EXCEPT ![c] = "panic"]
            /\ UNCHANGED <<base_share, remainder, pending, splits>>
       ELSE /\ base_share' = [base_share EXCEPT ![c] = TruncDiv(RawOf(amount[c]), recipients[c])]
            /\ remainder' = [remainder EXCEPT ![c] = TruncRem(RawOf(amount[c]), recipients[c])]
            /\ pending' = [pending EXCEPT ![c] = Indices(recipients[c])]
            /\ splits' = [splits EXCEPT ![c] = Presized(Indices(recipients[c]))]
            /\ pc' = [pc EXCEPT ![c] = "map"]
    /\ UNCHANGED <<amount, recipients, scale, total_split, diff, iters>>

(* lines 27-30: one worker of the parallel map computes share i *)
Worker(c, i) ==
    /\ pc[c] = "map"
    /\ i \in pending[c]
    /\ IF ScaleOk(scale[c])
       THEN /\ splits' = [splits EXCEPT ![c] =
                            Place(@, i, ShareOf(i, base_share[c], remainder[c], scale[c]))]
            /\ pending' = [pending EXCEPT ![c] = @ \ {i}]
            /\ pc' = pc
       ELSE /\ pc' = [pc EXCEPT ![c] = "panic"]
            /\ UNCHANGED <<splits, pending>>
    /\ UNCHANGED <<amount, recipients, scale, base_share, remainder, total_split, diff, iters>>

(* lines 31-38: the collect completes, the shares are summed, diff is set *)
SumShares(c) ==
    /\ pc[c] = "map"
    /\ pending[c] = {}
    /\ total_split' = [total_split EXCEPT ![c] = SumMantissas(splits[c])]
    /\ diff' = [diff EXCEPT ![c] = RawOf(amount[c]) - SumMantissas(splits[c])]
    /\ pc' = [pc EXCEPT ![c] = "loop"]
    /\ UNCHANGED <<amount, recipients, scale, base_share, remainder, pending, splits, iters>>

(* lines 40-48: one test of `while diff > 0`, then the body or the return *)
Loop(c) ==
    /\ pc[c] = "loop"
    /\ IF diff[c] > 0
       THEN LET new_val == mantissa(At(splits[c], 0)) + 1
                new_splits == [splits[c] EXCEPT ![1] = from_i128_with_scale(new_val, scale[c])]
            IN /\ splits' = [splits EXCEPT ![c] = new_splits]
               /\ diff' = [diff EXCEPT ![c] = RawOf(amount[c]) - SumMantissas(new_splits)]
               /\ iters' = [iters EXCEPT ![c] = @ + 1]
               /\ pc' = pc
       ELSE /\ pc' = [pc EXCEPT ![c] = "done"]
            /\ UNCHANGED <<splits, diff, iters>>
    /\ UNCHANGED <<amount, recipients, scale, base_share, remainder, pending, total_split>>

DivideStep == \E c \in DOMAIN pc : Divide(c)
WorkerStep == \E c \in DOMAIN pc : \E i \in 0..MaxRecipients + 1 : Worker(c, i)
SumSharesStep == \E c \in DOMAIN pc : SumShares(c)
LoopStep == \E c \in DOMAIN pc : Loop(c)

Next == DivideStep \/ WorkerStep \/ SumSharesStep \/ LoopStep

Spec == Init /\ [][Next]_vars

SpecTwo == InitTwo /\ [][Next]_vars

(* a call of split_decimal is synchronous and runs to completion *)
LiveSpec == Init /\ [][Next]_vars /\ WF_vars(Next)

(* ---- shorthands of the properties ---- *)
Returned(c) == pc[c] = "done"
Raw(c) == amount[c].mantissa
MantissasOf(s) == [k \in 1..Len(s) |-> s[k].mantissa]
MaxShare(s) == CHOOSE m \in {s[k].mantissa : k \in 1..Len(s)} : \A k \in 1..Len(s) : s[k].mantissa <= m
MinShare(s) == CHOOSE m \in {s[k].mantissa : k \in 1..Len(s)} : \A k \in 1..Len(s) : s[k].mantissa >= m

(* ---- properties ---- *)

(* C1: conservation -- the mantissas of the shares a call returns sum to   *)
(* the mantissa of the input amount, for every recipients >= 1.            *)
Conservation ==
    \A c \in DOMAIN pc :
        (Returned(c) /\ recipients[c] >= 1) => SumMantissas(splits[c]) = Raw(c)

(* C2: a call with recipients = 0 ends in an explicit                      *)
(* InvalidRecipientCount error value, never in a runtime trap.             *)
ZeroRecipientsRejected ==
    \A c \in DOMAIN pc :
        recipients[c] = 0 => pc[c] \in {"start", "InvalidRecipientCount"}

(* C3: a negative amount is either rejected or split into shares that sum  *)
(* to the input mantissa; no returned allocation has another sum.          *)
NegativeNeverWrong ==
    \A c \in DOMAIN pc :
        (Returned(c) /\ Raw(c) < 0 /\ recipients[c] >= 1)
            => SumMantissas(splits[c]) = Raw(c)

(* C4: the returned sequence has exactly `recipients` elements, each one a *)
(* share (zero-mantissa shares included, none dropped).                    *)
CountInvariant ==
    \A c \in DOMAIN pc :
        (Returned(c) /\ recipients[c] >= 1)
            => /\ Len(splits[c]) = recipients[c]
               /\ \A k \in 1..Len(splits[c]) : splits[c][k] /= NoShare

CountWitness ==
    \E c \in DOMAIN pc :
        /\ Returned(c)
        /\ Raw(c) >= 0
        /\ Raw(c) < recipients[c]
        /\ Len(splits[c]) = recipients[c]
        /\ \E k \in 1..Len(splits[c]) : splits[c][k].mantissa = 0

(* C5: in a returned allocation the largest and the smallest share         *)
(* mantissa differ by at most one minimal unit.                            *)
FairDistribution ==
    \A c \in DOMAIN pc :
        (Returned(c) /\ recipients[c] >= 1)
            => MaxShare(splits[c]) - MinShare(splits[c]) <= 1

FairWitness ==
    \E c \in DOMAIN pc :
        /\ Returned(c)
        /\ recipients[c] >= 3
        /\ remainder[c] >= 2
        /\ MaxShare(splits[c]) - MinShare(splits[c]) = 1

(* C6: two calls with identical (amount, recipients, scale) return         *)
(* identical sequences with share i at position i, whatever order the      *)
(* workers of the parallel map complete in.                                *)
Determinism ==
    (/\ DOMAIN pc = {1, 2}
     /\ amount[1] = amount[2] /\ recipients[1] = recipients[2] /\ scale[1] = scale[2]
     /\ Returned(1) /\ Returned(2))
        => /\ splits[1] = splits[2]
           /\ \A i \in 0..(recipients[1] - 1) :
                 At(splits[1], i).mantissa
                     = TruncDiv(Raw(1), recipients[1])
                         + (IF i < TruncRem(Raw(1), recipients[1]) THEN 1 ELSE 0)

DeterminismWitness ==
    /\ DOMAIN pc = {1, 2}
    /\ amount[1] = amount[2] /\ recipients[1] = recipients[2] /\ scale[1] = scale[2]
    /\ Returned(1) /\ Returned(2)
    /\ recipients[1] >= 3
    /\ remainder[1] >= 1
    /\ splits[1] = splits[2]

(* C7: the share mantissas depend on the input mantissa and the recipient  *)
(* count only -- not on the amount's own scale, not on the output scale -- *)
(* and every returned share carries the output scale.                      *)
ScaleReinterpretation ==
    /\ \A c \in DOMAIN pc :
          Returned(c) => \A k \in 1..Len(splits[c]) : splits[c][k].scale = scale[c]
    /\ (/\ DOMAIN pc = {1, 2}
        /\ amount[1].mantissa = amount[2].mantissa /\ recipients[1] = recipients[2]
        /\ Returned(1) /\ Returned(2))
          => MantissasOf(splits[1]) = MantissasOf(splits[2])

ScaleWitness ==
    /\ DOMAIN pc = {1, 2}
    /\ Returned(1) /\ Returned(2)
    /\ amount[1].mantissa = amount[2].mantissa
    /\ amount[1].mantissa > 0
    /\ amount[1].scale /= amount[2].scale
    /\ scale[1] /= scale[2]
    /\ recipients[1] = 1
    /\ splits[1] = <<from_i128_with_scale(amount[1].mantissa, scale[1])>>
    /\ MantissasOf(splits[1]) = MantissasOf(splits[2])

(* C8: for a non-negative mantissa raw and n >= 1 recipients, exactly the  *)
(* first (raw mod n) shares are (raw div n) + 1 and every later share is   *)
(* (raw div n); the shares are in non-increasing order by index.           *)
RemainderToLowestIndices ==
    \A c \in DOMAIN pc :
        (Returned(c) /\ Raw(c) >= 0 /\ recipients[c] >= 1)
            => /\ \A i \in 0..(recipients[c] - 1) :
                     At(splits[c], i).mantissa =
                         IF i < Raw(c) % recipients[c]
                         THEN (Raw(c) \div recipients[c]) + 1
                         ELSE Raw(c) \div recipients[c]
               /\ \A i \in 0..(recipients[c] - 2) :
                     At(splits[c], i).mantissa >= At(splits[c], i + 1).mantissa

RemainderWitness ==
    \E c \in DOMAIN pc :
        /\ Returned(c)
        /\ Raw(c) = 5
        /\ recipients[c] = 4
        /\ MantissasOf(splits[c]) = <<2, 1, 1, 1>>

(* C9: for a non-negative mantissa and recipients >= 1, diff right after   *)
(* the initial distribution is in [0, recipients), the `while diff > 0`    *)
(* loop runs fewer than `recipients` iterations, and it terminates with    *)
(* diff = 0.                                                               *)
ReconcileTerminates ==
    /\ [](\A c \in {1} :
            (pc[c] \in {"loop", "done"} /\ Raw(c) >= 0 /\ recipients[c] >= 1)
                => /\ Raw(c) - total_split[c] >= 0
                   /\ Raw(c) - total_split[c] < recipients[c]
                   /\ iters[c] < recipients[c]
                   /\ (pc[c] = "done" => diff[c] = 0))
    /\ \A c \in {1} :
          (pc[c] = "loop" /\ Raw(c) >= 0) ~> (pc[c] = "done" /\ diff[c] = 0)

ReconcileWitness ==
    \E c \in DOMAIN pc :
        /\ Returned(c)
        /\ Raw(c) > 0
        /\ recipients[c] >= 2
        /\ remainder[c] >= 1
        /\ diff[c] = 0

(* C10: for a non-negative mantissa and recipients >= 1 the body of the    *)
(* reconciliation loop never runs: from the first test of the loop to the  *)
(* return no share changes, share 0 included.                              *)
ReconcileNoOp ==
    [][\A c \in DOMAIN pc :
          (pc[c] = "loop" /\ Raw(c) >= 0 /\ recipients[c] >= 1)
              => /\ splits'[c] = splits[c]
                 /\ iters'[c] = 0
                 /\ pc'[c] \in {"loop", "done"}]_vars

NoOpWitness ==
    \E c \in DOMAIN pc :
        /\ Returned(c)
        /\ Raw(c) > 0
        /\ recipients[c] >= 2
        /\ remainder[c] >= 1
        /\ iters[c] = 0
        /\ At(splits[c], 0).mantissa = base_share[c] + 1

====
